---------------------------- MODULE Spec2Model ----------------------------
(***************************************************************************)
(* A model of the gex-tool repository:                                     *)
(*   - CloudClient (schwab_client_cloud.py): the OAuth token renewal       *)
(*     client, with several threads calling quote / option_chains;         *)
(*   - _seed_tokens_from_secrets (schwab_auth.py): seeding of the token    *)
(*     cache table from the external secret store;                         *)
(*   - calculate_gex (gex_calculator.py): the strike x expiration surface. *)
(* Each part has its own specification over the shared variables.          *)
(***************************************************************************)
EXTENDS Integers, Sequences, FiniteSets, TLC

\* ------------------------------------------------------------------------
\* Bounds of the model
\* ------------------------------------------------------------------------
NumThreads == 2
NumSeeders == 2
MaxSeeds == 3
MaxAdded == 2
MaxCalls == 2
MaxPosts == 3
MaxTime == 30
MaxGets == 3

\* ------------------------------------------------------------------------
\* Program constants
\* ------------------------------------------------------------------------
\* self._access_token = None; also "no Authorization header", "lock free"
NoToken == 0
\* datetime.datetime.min: earlier than every clock reading
DatetimeMin == -1
\* data.get("expires_in", 1800)
DEFAULT_EXPIRES_IN == 1800
\* timedelta(seconds=expires_in - 60)
SAFETY_MARGIN == 60
\* config.py: AGGREGATE_DTE, NUM_EXPIRY_COLUMNS
AGGREGATE_DTE == 30
NUM_EXPIRY_COLUMNS == 5
\* the contract multiplier of lines 26-27
MULTIPLIER == 100

VARIABLES
  \* CloudClient
  client,          \* "constructing" | "returned" | "failed"
  access_token,    \* self._access_token: NoToken or the id of the POST that minted it
  refresh_token,   \* self._refresh_token: 0 = the constructor's, n = rotated by POST n
  token_expiry,    \* self._token_expiry, in seconds
  header,          \* self._session.headers["Authorization"]: NoToken or Bearer <id>
  lock,            \* self._lock: 0 = free, else the thread holding it
  clock,           \* datetime.now(utc), in seconds
  posts,           \* number of POSTs sent to the token endpoint so far
  pc,              \* per thread: position in __init__ / _request
  now,             \* per thread: the local `now` of _ensure_token
  resp,            \* per thread: data = resp.json() of its renewal
  newExp,          \* per thread: the value computed on line 76, before it is stored
  calls,           \* calls started so far
  \* history of the client
  expiryBy,        \* id of the POST whose response stored the current token_expiry
  sawBy,           \* per thread: expiryBy as read by its expiry check
  okFrom,          \* expiryBy value -> number of successful POSTs by calls that saw it expired
  lastReq,         \* the refresh secret carried by the latest POST, or -1
  snap,            \* per thread: the credential bundle when it took the lock
  renewedAt,       \* per thread: clock read on line 76 of its renewal, or -1
  outcome,         \* per thread: how its last call (or construction) ended
  found,           \* per thread: what the expiry check of its call found
  postsBy,         \* per thread: successful POSTs of its call so far
  lastRot,         \* the refresh_token field of the latest response that had one, or 0
  \* _seed_tokens_from_secrets and the token cache ~/.schwabdev/tokens.db
  tableExists,     \* the table schwabdev exists
  rows,            \* the rows of the table schwabdev, in insertion order
  dbLock,          \* open connections that hold the write lock of the database: 0 or 1
  seeds,           \* invocations of _seed_tokens_from_secrets started so far
  seedPc,          \* per seeder: position in _seed_tokens_from_secrets
  bundle,          \* per seeder: the values read from st.secrets
  existing,        \* per seeder: the local `existing`
  seedOutcome,     \* per seeder: how its last invocation ended
  \* history of the seeding
  startedEmpty,    \* the cache held no row before the first invocation
  firstBundle,     \* the bundle of the first invocation that had a complete one
  overlapped,      \* two invocations have been in progress at the same time
  \* calculate_gex
  options_df,      \* the argument options_df: a sequence of contract records
  added,           \* records appended to the chain the input started from
  gex_called,      \* calculate_gex has returned
  gex_out,         \* its result (gex_table, gex_by_strike, net_contracts)
  \* get_client (schwab_auth.py)
  app_key,         \* config.SCHWAB_APP_KEY
  app_secret,      \* config.SCHWAB_APP_SECRET
  gcPc,            \* position in get_client
  gcOutcome,       \* how the last call of get_client ended
  gets,            \* calls of get_client started so far
  gcSeeded,        \* calls of _seed_tokens_from_secrets made by get_client
  gcClients        \* constructions of schwabdev.Client begun by get_client

clientVars == <<client, access_token, refresh_token, token_expiry, header, lock,
                clock, posts, pc, now, resp, newExp, calls, expiryBy, sawBy,
                okFrom, lastReq, snap, renewedAt, outcome, found, postsBy, lastRot>>

seedVars == <<tableExists, rows, dbLock, seeds, seedPc, bundle, existing,
              seedOutcome, startedEmpty, firstBundle, overlapped>>

gexVars == <<options_df, added, gex_called, gex_out>>

gcVars == <<app_key, app_secret, gcPc, gcOutcome, gets, gcSeeded, gcClients>>

vars == <<clientVars, seedVars, gexVars, gcVars>>

Threads == 1..NumThreads

\* The lifetimes the token endpoint may declare; -1 stands for a response
\* without an expires_in field.
NoField == -1
Lifetimes == {60, 90, NoField}

\* data = resp.json() of a successful response to POST number n
Responses(n) == [tok : {n}, rot : {0, n}, expires_in : Lifetimes]

NoResp == [tok |-> 0, rot |-> 0, expires_in |-> NoField]
NoSnap == <<-2, -2, -2, -2>>

Bundle == <<access_token, token_expiry, refresh_token, header>>

\* ------------------------------------------------------------------------
\* CloudClient
\* ------------------------------------------------------------------------
ClientInit ==
  /\ client = "constructing"
  /\ access_token = NoToken
  /\ refresh_token = 0
  /\ token_expiry = DatetimeMin
  /\ header = NoToken
  /\ lock = 0
  /\ clock = 0
  /\ posts = 0
  /\ pc = [t \in Threads |-> IF t = 1 THEN "init" ELSE "idle"]
  /\ now = [t \in Threads |-> 0]
  /\ resp = [t \in Threads |-> NoResp]
  /\ newExp = [t \in Threads |-> 0]
  /\ calls = 0
  /\ expiryBy = 0
  /\ sawBy = [t \in Threads |-> 0]
  /\ okFrom = [g \in 0..(MaxPosts + 1) |-> 0]
  /\ lastReq = -1
  /\ snap = [t \in Threads |-> NoSnap]
  /\ renewedAt = [t \in Threads |-> -1]
  /\ outcome = [t \in Threads |-> "none"]
  /\ found = [t \in Threads |-> "none"]
  /\ postsBy = [t \in Threads |-> 0]
  /\ lastRot = 0

\* Time passes.
Tick ==
  /\ \E d \in {30} : clock + d <= MaxTime /\ clock' = clock + d
  /\ UNCHANGED <<client, access_token, refresh_token, token_expiry, header, lock,
                 posts, pc, now, resp, newExp, calls, expiryBy, sawBy, okFrom,
                 lastReq, snap, renewedAt, outcome>>
  /\ UNCHANGED <<found, postsBy, lastRot>>
  /\ UNCHANGED <<seedVars, gexVars, gcVars>>

\* __init__, lines 29-39: the fields are set (ClientInit) and the constructor
\* calls _refresh_access_token.
Construct(t) ==
  /\ pc[t] = "init"
  /\ client = "constructing"
  /\ pc' = [pc EXCEPT ![t] = "lock"]
  /\ UNCHANGED <<client, access_token, refresh_token, token_expiry, header, lock,
                 clock, posts, now, resp, newExp, calls, expiryBy, sawBy, okFrom,
                 lastReq, snap, renewedAt, outcome>>
  /\ UNCHANGED <<found, postsBy, lastRot>>
  /\ UNCHANGED <<seedVars, gexVars, gcVars>>

\* quote / option_chains -> _request: a call starts.
Call(t) ==
  /\ pc[t] = "idle"
  /\ client = "returned"
  /\ calls < MaxCalls
  /\ calls' = calls + 1
  /\ pc' = [pc EXCEPT ![t] = "e82"]
  /\ outcome' = [outcome EXCEPT ![t] = "none"]
  /\ UNCHANGED <<client, access_token, refresh_token, token_expiry, header, lock,
                 clock, posts, now, resp, newExp, expiryBy, sawBy, okFrom,
                 lastReq, snap, renewedAt>>
  /\ UNCHANGED <<found, postsBy, lastRot>>
  /\ UNCHANGED <<seedVars, gexVars, gcVars>>

\* _ensure_token, line 82: now = datetime.now(utc)
ReadNow(t) ==
  /\ pc[t] = "e82"
  /\ now' = [now EXCEPT ![t] = clock]
  /\ pc' = [pc EXCEPT ![t] = "e83"]
  /\ UNCHANGED <<client, access_token, refresh_token, token_expiry, header, lock,
                 clock, posts, resp, newExp, calls, expiryBy, sawBy, okFrom,
                 lastReq, snap, renewedAt, outcome>>
  /\ UNCHANGED <<found, postsBy, lastRot>>
  /\ UNCHANGED <<seedVars, gexVars, gcVars>>

\* An expiry check that renews on every call.
Expired_Always(t) == now[t] >= token_expiry \/ now[t] < token_expiry

\* _ensure_token, line 83: the expiry check, made without the lock.
Expired(t) == now[t] >= token_expiry

\* _ensure_token, lines 83-84
CheckExpiry(t) ==
  /\ pc[t] = "e83"
  /\ sawBy' = [sawBy EXCEPT ![t] = expiryBy]
  /\ found' = [found EXCEPT ![t] = IF Expired(t) THEN "expired" ELSE "valid"]
  /\ pc' = [pc EXCEPT ![t] = IF Expired(t) THEN "lock" ELSE "send"]
  /\ UNCHANGED <<client, access_token, refresh_token, token_expiry, header, lock,
                 clock, posts, now, resp, newExp, calls, expiryBy, okFrom,
                 lastReq, snap, renewedAt, outcome>>
  /\ UNCHANGED <<postsBy, lastRot>>
  /\ UNCHANGED <<seedVars, gexVars, gcVars>>

\* _refresh_access_token, line 48: with self._lock
Acquire(t) ==
  /\ pc[t] = "lock"
  /\ lock = 0
  /\ lock' = t
  /\ snap' = [snap EXCEPT ![t] = Bundle]
  /\ pc' = [pc EXCEPT ![t] = "post"]
  /\ UNCHANGED <<client, access_token, refresh_token, token_expiry, header,
                 clock, posts, now, resp, newExp, calls, expiryBy, sawBy, okFrom,
                 lastReq, renewedAt, outcome>>
  /\ UNCHANGED <<found, postsBy, lastRot>>
  /\ UNCHANGED <<seedVars, gexVars, gcVars>>

\* A call (or the construction) is over: its locals are gone.
Return(t) ==
  /\ now' = [now EXCEPT ![t] = 0]
  /\ resp' = [resp EXCEPT ![t] = NoResp]
  /\ newExp' = [newExp EXCEPT ![t] = 0]
  /\ sawBy' = [sawBy EXCEPT ![t] = 0]
  /\ renewedAt' = [renewedAt EXCEPT ![t] = -1]
  /\ found' = [found EXCEPT ![t] = "none"]
  /\ postsBy' = [postsBy EXCEPT ![t] = 0]

\* A constructor that swallows the renewal error and returns the client.
Raise_Swallowed(t, kind) ==
  /\ lock' = 0
  /\ outcome' = [outcome EXCEPT ![t] = kind]
  /\ pc' = [pc EXCEPT ![t] = "idle"]
  /\ client' = "returned"
  /\ snap' = [snap EXCEPT ![t] = NoSnap]
  /\ Return(t)

\* A renewal that, when it fails, stays in the with-block and tries again.
Raise_Retry(t, kind) ==
  /\ outcome' = [outcome EXCEPT ![t] = kind]
  /\ UNCHANGED <<lock, pc, client, snap, now, resp, newExp, sawBy, renewedAt,
                 found, postsBy>>

\* A renewal that takes the lock by hand and, when it fails, leaves without
\* releasing it.
Raise_KeepsLock(t, kind) ==
  /\ lock' = lock
  /\ outcome' = [outcome EXCEPT ![t] = kind]
  /\ pc' = [pc EXCEPT ![t] = IF client = "constructing" THEN "dead" ELSE "idle"]
  /\ client' = IF client = "constructing" THEN "failed" ELSE client
  /\ snap' = [snap EXCEPT ![t] = NoSnap]
  /\ Return(t)

\* How a renewal that raises leaves the thread: the with-block releases the
\* lock, the exception leaves _request (or __init__, and then no client is
\* returned).
Raise(t, kind) ==
  /\ lock' = 0
  /\ outcome' = [outcome EXCEPT ![t] = kind]
  /\ pc' = [pc EXCEPT ![t] = IF client = "constructing" THEN "dead" ELSE "idle"]
  /\ client' = IF client = "constructing" THEN "failed" ELSE client
  /\ snap' = [snap EXCEPT ![t] = NoSnap]
  /\ Return(t)

\* lines 49-60: the POST is sent, carrying self._refresh_token
SendPost(t) ==
  /\ pc[t] = "post"
  /\ lock = t
  /\ posts < MaxPosts
  /\ posts' = posts + 1
  /\ lastReq' = refresh_token

\* lines 49-60, requests.post raises (timeout, connection refused)
PostTransportError(t) ==
  /\ SendPost(t)
  /\ Raise(t, "TransportError")
  /\ UNCHANGED <<access_token, refresh_token, token_expiry, header,
                 clock, calls, expiryBy, okFrom>>
  /\ UNCHANGED <<lastRot>>
  /\ UNCHANGED <<seedVars, gexVars, gcVars>>

\* A failure path that forgets the bearer token before raising.
FailureEffect_ClearsToken ==
  /\ access_token' = NoToken
  /\ UNCHANGED <<refresh_token, token_expiry, header>>

\* What lines 62-68 do to the credential bundle: nothing.
FailureEffect ==
  UNCHANGED <<access_token, refresh_token, token_expiry, header>>

\* lines 49-68: the token endpoint answers with a non-success status
PostRejected(t) ==
  /\ SendPost(t)
  /\ Raise(t, "RuntimeError")
  /\ FailureEffect
  /\ UNCHANGED <<clock, calls, expiryBy, okFrom>>
  /\ UNCHANGED <<lastRot>>
  /\ UNCHANGED <<seedVars, gexVars, gcVars>>

\* lines 49-70: the token endpoint answers 2xx; data = resp.json()
PostOk(t) ==
  /\ SendPost(t)
  /\ \E d \in Responses(posts + 1) : resp' = [resp EXCEPT ![t] = d]
  /\ okFrom' = [okFrom EXCEPT ![sawBy[t]] = @ + 1]
  /\ postsBy' = [postsBy EXCEPT ![t] = @ + 1]
  /\ lastRot' = IF resp'[t].rot # 0 THEN resp'[t].rot ELSE lastRot
  /\ pc' = [pc EXCEPT ![t] = "s71"]
  /\ UNCHANGED <<client, access_token, refresh_token, token_expiry, header, lock,
                 clock, now, newExp, calls, expiryBy, sawBy, snap,
                 renewedAt, outcome>>
  /\ UNCHANGED <<found>>
  /\ UNCHANGED <<seedVars, gexVars, gcVars>>

\* line 71: self._access_token = data["access_token"]
StoreAccess(t) ==
  /\ pc[t] = "s71"
  /\ access_token' = resp[t].tok
  /\ pc' = [pc EXCEPT ![t] = "s73"]
  /\ UNCHANGED <<client, refresh_token, token_expiry, header, lock,
                 clock, posts, now, resp, newExp, calls, expiryBy, sawBy, okFrom,
                 lastReq, snap, renewedAt, outcome>>
  /\ UNCHANGED <<found, postsBy, lastRot>>
  /\ UNCHANGED <<seedVars, gexVars, gcVars>>

\* A rotation that takes the field of the response even when it is absent.
Rotated_Always(t) == resp[t].rot

\* lines 73-74: the refresh secret after a successful response
Rotated(t) == IF resp[t].rot # 0 THEN resp[t].rot ELSE refresh_token

\* lines 73-74
StoreRefresh(t) ==
  /\ pc[t] = "s73"
  /\ refresh_token' = Rotated(t)
  /\ pc' = [pc EXCEPT ![t] = "r76"]
  /\ UNCHANGED <<client, access_token, token_expiry, header, lock,
                 clock, posts, now, resp, newExp, calls, expiryBy, sawBy, okFrom,
                 lastReq, snap, renewedAt, outcome>>
  /\ UNCHANGED <<found, postsBy, lastRot>>
  /\ UNCHANGED <<seedVars, gexVars, gcVars>>

\* line 75: expires_in = data.get("expires_in", 1800)
ExpiresIn(d) == IF d.expires_in = NoField THEN DEFAULT_EXPIRES_IN ELSE d.expires_in

\* An expiry without the safety margin.
ExpiryFrom_NoMargin(t) == clock + ExpiresIn(resp[t])

\* line 76, right-hand side: now(utc) + timedelta(seconds=expires_in - 60)
ExpiryFrom(t) == clock + (ExpiresIn(resp[t]) - SAFETY_MARGIN)

\* lines 75-76: the right-hand side is evaluated
ComputeExpiry(t) ==
  /\ pc[t] = "r76"
  /\ newExp' = [newExp EXCEPT ![t] = ExpiryFrom(t)]
  /\ renewedAt' = [renewedAt EXCEPT ![t] = clock]
  /\ pc' = [pc EXCEPT ![t] = "s76"]
  /\ UNCHANGED <<client, access_token, refresh_token, token_expiry, header, lock,
                 clock, posts, now, resp, calls, expiryBy, sawBy, okFrom,
                 lastReq, snap, outcome>>
  /\ UNCHANGED <<found, postsBy, lastRot>>
  /\ UNCHANGED <<seedVars, gexVars, gcVars>>

\* line 76: self._token_expiry is assigned
StoreExpiry(t) ==
  /\ pc[t] = "s76"
  /\ token_expiry' = newExp[t]
  /\ expiryBy' = resp[t].tok
  /\ pc' = [pc EXCEPT ![t] = "s77"]
  /\ UNCHANGED <<client, access_token, refresh_token, header, lock,
                 clock, posts, now, resp, newExp, calls, sawBy, okFrom,
                 lastReq, snap, renewedAt, outcome>>
  /\ UNCHANGED <<found, postsBy, lastRot>>
  /\ UNCHANGED <<seedVars, gexVars, gcVars>>

\* lines 77-78 and the end of the with-block: the header is set and the lock
\* released; _refresh_access_token returns to _ensure_token, and the request
\* follows.
StoreHeader(t) ==
  /\ pc[t] = "s77"
  /\ client = "returned"
  /\ header' = access_token
  /\ lock' = 0
  /\ snap' = [snap EXCEPT ![t] = NoSnap]
  /\ pc' = [pc EXCEPT ![t] = "send"]
  /\ UNCHANGED <<client, access_token, refresh_token, token_expiry,
                 clock, posts, now, resp, newExp, calls, expiryBy, sawBy, okFrom,
                 lastReq, renewedAt, outcome>>
  /\ UNCHANGED <<found, postsBy, lastRot>>
  /\ UNCHANGED <<seedVars, gexVars, gcVars>>

\* lines 77-78 and the end of the with-block, in the renewal of __init__
\* (line 39): the constructor returns the client.
ConstructDone(t) ==
  /\ pc[t] = "s77"
  /\ client = "constructing"
  /\ header' = access_token
  /\ lock' = 0
  /\ snap' = [snap EXCEPT ![t] = NoSnap]
  /\ client' = "returned"
  /\ pc' = [pc EXCEPT ![t] = "idle"]
  /\ outcome' = [outcome EXCEPT ![t] = "constructed"]
  /\ Return(t)
  /\ UNCHANGED <<access_token, refresh_token, token_expiry,
                 clock, posts, calls, expiryBy, okFrom, lastReq>>
  /\ UNCHANGED <<lastRot>>
  /\ UNCHANGED <<seedVars, gexVars, gcVars>>

\* _request, lines 88-90: the request is sent with the session's headers
Dispatch(t) ==
  /\ pc[t] = "send"
  /\ outcome' = [outcome EXCEPT ![t] = "sent"]
  /\ pc' = [pc EXCEPT ![t] = "idle"]
  /\ Return(t)
  /\ UNCHANGED <<client, access_token, refresh_token, token_expiry, header, lock,
                 clock, posts, calls, expiryBy, okFrom, lastReq, snap>>
  /\ UNCHANGED <<lastRot>>
  /\ UNCHANGED <<seedVars, gexVars, gcVars>>

ClientNext ==
  \/ Tick
  \/ \E t \in Threads : Construct(t)
  \/ \E t \in Threads : Call(t)
  \/ \E t \in Threads : ReadNow(t)
  \/ \E t \in Threads : CheckExpiry(t)
  \/ \E t \in Threads : Acquire(t)
  \/ \E t \in Threads : PostTransportError(t)
  \/ \E t \in Threads : PostRejected(t)
  \/ \E t \in Threads : PostOk(t)
  \/ \E t \in Threads : StoreAccess(t)
  \/ \E t \in Threads : StoreRefresh(t)
  \/ \E t \in Threads : ComputeExpiry(t)
  \/ \E t \in Threads : StoreExpiry(t)
  \/ \E t \in Threads : StoreHeader(t)
  \/ \E t \in Threads : ConstructDone(t)
  \/ \E t \in Threads : Dispatch(t)

\* ------------------------------------------------------------------------
\* _seed_tokens_from_secrets (schwab_auth.py)
\* ------------------------------------------------------------------------
Seeders == 1..NumSeeders

\* What st.secrets.get returns for a key: None (absent), an empty string, or
\* a value. Two stores with values differ in the values (ver).
Field == {"None", "", "set"}
Bundles == [at_issued : Field, rt_issued : Field, access_token : Field,
            refresh_token : Field, ver : {1, 2}]
NoBundle == [at_issued |-> "None", rt_issued |-> "None", access_token |-> "None",
             refresh_token |-> "None", ver |-> 0]

\* A row written by an interactive schwabdev login on this machine.
LocalRow == [at_issued |-> "set", rt_issued |-> "set", access_token |-> "set",
             refresh_token |-> "set", ver |-> 3]

\* Python truth of a value read from the secrets
Truthy(v) == v \notin {"None", ""}

\* line 24: if not refresh_token or not at_issued: return
GuardPasses(b) == Truthy(b.refresh_token) /\ Truthy(b.at_issued)

\* lines 34-37 and 49-51: the columns bound to secrets are all NOT NULL
NotNullOk(b) ==
  /\ b.at_issued # "None"
  /\ b.rt_issued # "None"
  /\ b.access_token # "None"
  /\ b.refresh_token # "None"

\* A complete credential bundle: refresh token, access token and both
\* issuance timestamps are there.
Complete(b) ==
  /\ Truthy(b.refresh_token) /\ Truthy(b.access_token)
  /\ Truthy(b.at_issued) /\ Truthy(b.rt_issued)

Active(p) == seedPc[p] # "idle"

SeedInit ==
  /\ \E r \in {<<>>, <<LocalRow>>} :
        /\ rows = r
        /\ startedEmpty = (r = <<>>)
        /\ tableExists \in (IF r = <<>> THEN BOOLEAN ELSE {TRUE})
  /\ dbLock = 0
  /\ seeds = 0
  /\ seedPc = [p \in Seeders |-> "idle"]
  /\ bundle = [p \in Seeders |-> NoBundle]
  /\ existing = [p \in Seeders |-> 0]
  /\ seedOutcome = [p \in Seeders |-> "none"]
  /\ firstBundle = NoBundle
  /\ overlapped = FALSE

\* An invocation begins.
Invoke(p) ==
  /\ seedPc[p] = "idle"
  /\ seeds < MaxSeeds
  /\ seeds' = seeds + 1
  /\ overlapped' = (overlapped \/ \E q \in Seeders : q # p /\ Active(q))

\* An invocation ends: by return, or by an exception leaving the function.
Finish(p, how) ==
  /\ seedPc' = [seedPc EXCEPT ![p] = "idle"]
  /\ seedOutcome' = [seedOutcome EXCEPT ![p] = how]
  /\ bundle' = [bundle EXCEPT ![p] = NoBundle]
  /\ existing' = [existing EXCEPT ![p] = 0]

\* lines 14-22: streamlit cannot be imported, or st.secrets raises (no
\* secrets file): the except clause returns.
SeedNoSecrets(p) ==
  /\ Invoke(p)
  /\ Finish(p, "returned")
  /\ UNCHANGED <<tableExists, rows, dbLock, startedEmpty, firstBundle>>
  /\ UNCHANGED <<clientVars, gexVars, gcVars>>

\* lines 15-25: the secrets are read and the guard returns.
SeedNotConfigured(p) ==
  /\ Invoke(p)
  /\ \E b \in Bundles : ~GuardPasses(b)
  /\ Finish(p, "returned")
  /\ UNCHANGED <<tableExists, rows, dbLock, startedEmpty, firstBundle>>
  /\ UNCHANGED <<clientVars, gexVars, gcVars>>

\* lines 15-28: the secrets are read and pass the guard.
SeedRead(p) ==
  /\ Invoke(p)
  /\ \E b \in Bundles :
        /\ GuardPasses(b)
        /\ bundle' = [bundle EXCEPT ![p] = b]
        /\ firstBundle' = IF firstBundle = NoBundle /\ Complete(b) THEN b ELSE firstBundle
  /\ seedPc' = [seedPc EXCEPT ![p] = "connect"]
  /\ UNCHANGED <<tableExists, rows, dbLock, existing, seedOutcome, startedEmpty>>
  /\ UNCHANGED <<clientVars, gexVars, gcVars>>

\* lines 30-43: sqlite3.connect and CREATE TABLE IF NOT EXISTS
SeedConnect(p) ==
  /\ seedPc[p] = "connect"
  /\ tableExists' = TRUE
  /\ seedPc' = [seedPc EXCEPT ![p] = "count"]
  /\ UNCHANGED <<rows, dbLock, seeds, bundle, existing, seedOutcome,
                 startedEmpty, firstBundle, overlapped>>
  /\ UNCHANGED <<clientVars, gexVars, gcVars>>

\* line 46: existing = SELECT COUNT(*) FROM schwabdev
SeedCount(p) ==
  /\ seedPc[p] = "count"
  /\ existing' = [existing EXCEPT ![p] = Len(rows)]
  /\ seedPc' = [seedPc EXCEPT ![p] = "insert"]
  /\ UNCHANGED <<tableExists, rows, dbLock, seeds, bundle, seedOutcome,
                 startedEmpty, firstBundle, overlapped>>
  /\ UNCHANGED <<clientVars, gexVars, gcVars>>

\* line 47: if existing == 0
ShouldInsert(p) == existing[p] = 0

\* lines 47 and 53: the table is not empty; conn.close()
SeedSkip(p) ==
  /\ seedPc[p] = "insert"
  /\ ~ShouldInsert(p)
  /\ Finish(p, "returned")
  /\ UNCHANGED <<tableExists, rows, dbLock, seeds,
                 startedEmpty, firstBundle, overlapped>>
  /\ UNCHANGED <<clientVars, gexVars, gcVars>>

\* lines 48-53: INSERT, conn.commit(), conn.close()
SeedInsert(p) ==
  /\ seedPc[p] = "insert"
  /\ ShouldInsert(p)
  /\ dbLock = 0
  /\ NotNullOk(bundle[p])
  /\ rows' = Append(rows, bundle[p])
  /\ Finish(p, "returned")
  /\ UNCHANGED <<tableExists, dbLock, seeds,
                 startedEmpty, firstBundle, overlapped>>
  /\ UNCHANGED <<clientVars, gexVars, gcVars>>

\* lines 48-51: the INSERT begins a write transaction and fails on a NOT NULL
\* column; the exception leaves the function before conn.close(), so the
\* connection stays open, holding the write lock, until it is collected.
SeedIntegrityError(p) ==
  /\ seedPc[p] = "insert"
  /\ ShouldInsert(p)
  /\ dbLock = 0
  /\ ~NotNullOk(bundle[p])
  /\ dbLock' = 1
  /\ Finish(p, "IntegrityError")
  /\ UNCHANGED <<tableExists, rows, seeds,
                 startedEmpty, firstBundle, overlapped>>
  /\ UNCHANGED <<clientVars, gexVars, gcVars>>

\* lines 48-51: the INSERT cannot get the write lock within the timeout:
\* sqlite3.OperationalError, database is locked.
SeedLocked(p) ==
  /\ seedPc[p] = "insert"
  /\ ShouldInsert(p)
  /\ dbLock # 0
  /\ Finish(p, "OperationalError")
  /\ UNCHANGED <<tableExists, rows, dbLock, seeds,
                 startedEmpty, firstBundle, overlapped>>
  /\ UNCHANGED <<clientVars, gexVars, gcVars>>

\* The connection left open by a failed invocation is collected and closed,
\* which rolls its transaction back.
CollectConnection ==
  /\ dbLock # 0
  /\ dbLock' = 0
  /\ UNCHANGED <<tableExists, rows, seeds, seedPc, bundle, existing,
                 seedOutcome, startedEmpty, firstBundle, overlapped>>
  /\ UNCHANGED <<clientVars, gexVars, gcVars>>

SeedNext ==
  \/ \E p \in Seeders : SeedNoSecrets(p)
  \/ \E p \in Seeders : SeedNotConfigured(p)
  \/ \E p \in Seeders : SeedRead(p)
  \/ \E p \in Seeders : SeedConnect(p)
  \/ \E p \in Seeders : SeedCount(p)
  \/ \E p \in Seeders : SeedSkip(p)
  \/ \E p \in Seeders : SeedInsert(p)
  \/ \E p \in Seeders : SeedIntegrityError(p)
  \/ \E p \in Seeders : SeedLocked(p)
  \/ CollectConnection

\* ------------------------------------------------------------------------
\* calculate_gex (gex_calculator.py)
\* ------------------------------------------------------------------------
\* The inputs: a chain of the first k expirations at the top strike, followed
\* by up to MaxAdded further records, in the order fetch_options_chain
\* returns them (strike descending, then expiration ascending). Expirations
\* are days counted from today, so dte is the expiration itself. Gammas are
\* integers (a fixed-point unit).
Strikes == {4995, 5000, 5005}
TopStrike == CHOOSE k \in Strikes : \A j \in Strikes : j <= k
Expirations == {0, 1, 2, 3, 7, 30, 31}
Greeks ==
  { [call_OI |-> 3, call_gamma |-> 2, put_OI |-> 4, put_gamma |-> 0],
    [call_OI |-> 5, call_gamma |-> 0, put_OI |-> 1, put_gamma |-> 7] }
ChainGreeks == [call_OI |-> 2, call_gamma |-> 3, put_OI |-> 4, put_gamma |-> 1]

Rec(k, e, g) ==
  [strike |-> k, expiration |-> e, dte |-> e,
   call_OI |-> g.call_OI, call_gamma |-> g.call_gamma,
   put_OI |-> g.put_OI, put_gamma |-> g.put_gamma]

Records == {Rec(k, e, g) : k \in Strikes, e \in Expirations, g \in Greeks}

RECURSIVE SortAsc(_)
\* sorted(S)
SortAsc(S) ==
  IF S = {} THEN <<>>
  ELSE LET m == CHOOSE x \in S : \A y \in S : x <= y
       IN <<m>> \o SortAsc(S \ {m})

\* ascending=False
Reverse(q) == [i \in 1..Len(q) |-> q[Len(q) + 1 - i]]

Range(q) == {q[i] : i \in DOMAIN q}

Chain(k) == [i \in 1..k |-> Rec(TopStrike, SortAsc(Expirations)[i], ChainGreeks)]

\* sort_values(["strike", "expiration"], ascending=[False, True])
InOrder(a, b) ==
  \/ a.strike > b.strike
  \/ a.strike = b.strike /\ a.expiration <= b.expiration

\* A value of a cell: NaN, or a number
NaN == <<>>
Num(v) == <<v>>

\* Column labels: an expiration, "0-30 DTE", "Net Contracts"
ExpCol(e) == <<"expiration", e>>
AggCol == <<"0-30 DTE", AGGREGATE_DTE>>
NetCol == <<"Net Contracts", 0>>

EmptyFrame == [index |-> <<>>, columns |-> <<>>, cell |-> [k \in {} |-> NaN]]
EmptySeries == [index |-> <<>>, val |-> [k \in {} |-> 0]]
\* A result for the empty input that has a row of zeros.
EmptyResult_OneRow ==
  [gex_table |-> [index |-> <<0>>, columns |-> <<AggCol>>,
                  cell |-> [k \in {<<0, AggCol>>} |-> Num(0)]],
   gex_by_strike |-> EmptySeries, net_contracts |-> EmptySeries]

\* line 21
EmptyResult ==
  [gex_table |-> EmptyFrame, gex_by_strike |-> EmptySeries,
   net_contracts |-> EmptySeries]

\* line 26: df["call_gex"] = df["call_OI"] * df["call_gamma"] * 100
CallGex(r) == r.call_OI * r.call_gamma * MULTIPLIER

\* A put leg that is not negated.
PutGex_Unsigned(r) == r.put_OI * r.put_gamma * MULTIPLIER

\* line 27: df["put_gex"] = -df["put_OI"] * df["put_gamma"] * 100
PutGex(r) == (0 - r.put_OI) * r.put_gamma * MULTIPLIER

\* line 28
NetGex(r) == CallGex(r) + PutGex(r)

\* line 31
NetContracts(r) == r.call_OI - r.put_OI

\* lines 23-31: df with its computed columns
WithColumns(df) ==
  [i \in 1..Len(df) |->
     [strike |-> df[i].strike, expiration |-> df[i].expiration, dte |-> df[i].dte,
      net_gex |-> NetGex(df[i]), net_contracts |-> NetContracts(df[i])]]

RECURSIVE SumNetGex(_)
\* ["net_gex"].sum()
SumNetGex(q) == IF q = <<>> THEN 0 ELSE Head(q).net_gex + SumNetGex(Tail(q))

RECURSIVE SumNetContracts(_)
\* ["net_contracts"].sum()
SumNetContracts(q) ==
  IF q = <<>> THEN 0 ELSE Head(q).net_contracts + SumNetContracts(Tail(q))

StrikesOf(df) == {df[i].strike : i \in DOMAIN df}
ExpirationsOf(df) == {df[i].expiration : i \in DOMAIN df}
AtStrike(df, k) == SelectSeq(df, LAMBDA r : r.strike = k)

\* line 34: sorted(df["expiration"].unique())
UniqueExps(df) == SortAsc(ExpirationsOf(df))

\* Every expiration gets a column.
DisplayExps_All(unique_exps) == unique_exps

\* line 35: unique_exps[:NUM_EXPIRY_COLUMNS]
DisplayExps(unique_exps) ==
  SubSeq(unique_exps, 1,
         IF Len(unique_exps) < NUM_EXPIRY_COLUMNS
         THEN Len(unique_exps) ELSE NUM_EXPIRY_COLUMNS)

\* lines 38-43: df.pivot_table(index="strike", columns="expiration",
\* values="net_gex", aggfunc="sum")
PivotTable(df) ==
  LET exps == UniqueExps(df)
  IN [index |-> SortAsc(StrikesOf(df)),
      columns |-> [i \in 1..Len(exps) |-> ExpCol(exps[i])],
      cell |-> [k \in StrikesOf(df) \X {ExpCol(e) : e \in ExpirationsOf(df)} |->
                  LET m == SelectSeq(df, LAMBDA r :
                             r.strike = k[1] /\ ExpCol(r.expiration) = k[2])
                  IN IF m = <<>> THEN NaN ELSE Num(SumNetGex(m))]]

\* A reindex that also drops the strikes without a record in the columns kept.
Reindex_DropEmptyRows(t, exps) ==
  LET cols == [i \in 1..Len(exps) |-> ExpCol(exps[i])]
      keep == SelectSeq(t.index, LAMBDA k :
                \E c \in Range(cols) : <<k, c>> \in DOMAIN t.cell /\ t.cell[<<k, c>>] # NaN)
  IN [index |-> keep,
      columns |-> cols,
      cell |-> [k \in Range(keep) \X Range(cols) |->
                  IF k \in DOMAIN t.cell THEN t.cell[k] ELSE NaN]]

\* line 46: pivot.reindex(columns=display_exps)
Reindex(t, exps) ==
  LET cols == [i \in 1..Len(exps) |-> ExpCol(exps[i])]
  IN [index |-> t.index,
      columns |-> cols,
      cell |-> [k \in Range(t.index) \X Range(cols) |->
                  IF k \in DOMAIN t.cell THEN t.cell[k] ELSE NaN]]

\* pivot[label] = series: the column is added (or replaced), its values
\* aligned on the index, NaN where the series has no entry
SetColumn(t, label, series) ==
  LET cols == IF label \in Range(t.columns) THEN t.columns
              ELSE Append(t.columns, label)
  IN [index |-> t.index,
      columns |-> cols,
      cell |-> [k \in Range(t.index) \X Range(cols) |->
                  IF k[2] = label
                  THEN IF k[1] \in DOMAIN series.val
                       THEN Num(series.val[k[1]]) ELSE NaN
                  ELSE t.cell[k]]]

\* The aggregate without its boundary day.
WithinAgg_Strict(df) == SelectSeq(df, LAMBDA r : r.dte < AGGREGATE_DTE)

\* line 49: df[df["dte"] <= AGGREGATE_DTE]
WithinAgg(df) == SelectSeq(df, LAMBDA r : r.dte <= AGGREGATE_DTE)

\* line 50 and line 57: groupby("strike")["net_gex"].sum()
GroupNetGex(df) ==
  [index |-> SortAsc(StrikesOf(df)),
   val |-> [k \in StrikesOf(df) |-> SumNetGex(AtStrike(df, k))]]

\* Net contracts of the nearest expirations only.
GroupNetContracts_Displayed(df) ==
  [index |-> SortAsc(StrikesOf(df)),
   val |-> [k \in StrikesOf(df) |->
              SumNetContracts(SelectSeq(AtStrike(df, k), LAMBDA r :
                r.expiration \in Range(DisplayExps(UniqueExps(df)))))]]

\* line 54: groupby("strike")["net_contracts"].sum()
GroupNetContracts(df) ==
  [index |-> SortAsc(StrikesOf(df)),
   val |-> [k \in StrikesOf(df) |-> SumNetContracts(AtStrike(df, k))]]

\* lines 60-62: sort_index(ascending=False)
SortIndexDesc(x) == [x EXCEPT !.index = Reverse(SortAsc(Range(x.index)))]

\* A result whose missing cells stay missing.
FillNa_Skip(t) == t

\* line 68: fillna(0)
FillNa(t) ==
  [t EXCEPT !.cell = [k \in DOMAIN t.cell |->
                        IF t.cell[k] = NaN THEN Num(0) ELSE t.cell[k]]]

\* calculate_gex(options_df, spot_price), lines 20-70
calculate_gex(frame, spot_price) ==
  IF frame = <<>> THEN EmptyResult
  ELSE
    LET df == WithColumns(frame)
        display_exps == DisplayExps(UniqueExps(df))
        pivot1 == Reindex(PivotTable(df), display_exps)
        agg_by_strike == GroupNetGex(WithinAgg(df))
        pivot2 == SetColumn(pivot1, AggCol, agg_by_strike)
        net_contracts == SortIndexDesc(GroupNetContracts(df))
        gex_by_strike == SortIndexDesc(GroupNetGex(df))
        pivot3 == SetColumn(SortIndexDesc(pivot2), NetCol, net_contracts)
    IN [gex_table |-> FillNa(pivot3),
        gex_by_strike |-> gex_by_strike,
        net_contracts |-> net_contracts]

\* The spot prices handed to calculate_gex
SpotPrices == {-1, 0, 5000}

GexInit ==
  /\ \E k \in 0..Cardinality(Expirations) : options_df = Chain(k)
  /\ added = 0
  /\ gex_called = FALSE
  /\ gex_out = EmptyResult

\* One more record in the chain handed to calculate_gex.
AddRecord(r) ==
  /\ ~gex_called
  /\ added < MaxAdded
  /\ options_df # <<>> => InOrder(options_df[Len(options_df)], r)
  /\ options_df' = Append(options_df, r)
  /\ added' = added + 1
  /\ UNCHANGED <<gex_called, gex_out>>
  /\ UNCHANGED <<clientVars, seedVars, gcVars>>

\* app.py line 150: calculate_gex(filtered_df, spot_price)
Calculate ==
  /\ ~gex_called
  /\ \E spot_price \in SpotPrices :
       gex_out' = calculate_gex(options_df, spot_price)
  /\ gex_called' = TRUE
  /\ UNCHANGED <<options_df, added>>
  /\ UNCHANGED <<clientVars, seedVars, gcVars>>

GexNext ==
  \/ \E r \in Records : AddRecord(r)
  \/ Calculate

GexIdle ==
  /\ options_df = <<>> /\ added = 0 /\ gex_called = FALSE /\ gex_out = EmptyResult

\* ------------------------------------------------------------------------
\* get_client (schwab_auth.py)
\* ------------------------------------------------------------------------
\* What config.py reads from the environment for a credential: None (not
\* set), an empty string, the placeholder of the template, or a value.
Credentials == {"None", "", "placeholder", "set"}

\* line 58: not (not SCHWAB_APP_KEY or SCHWAB_APP_KEY == "your_app_key_here")
KeyConfigured == Truthy(app_key) /\ app_key # "placeholder"

\* How the call on line 65 can end (see SeedNext)
SeedEndings == {"returned", "IntegrityError", "OperationalError"}

\* How schwabdev.Client(...) can end: the library is not part of the
\* repository, it returns a client or raises.
LibraryEndings == {"client", "LibraryError"}

GetClientInit ==
  /\ app_key \in Credentials
  /\ app_secret \in Credentials
  /\ gcPc = "idle"
  /\ gcOutcome = "none"
  /\ gets = 0
  /\ gcSeeded = 0
  /\ gcClients = 0

\* lines 58-62: the credentials are not configured
GetClientRaise ==
  /\ gcPc = "idle"
  /\ gets < MaxGets
  /\ ~KeyConfigured
  /\ gets' = gets + 1
  /\ gcOutcome' = "ValueError"
  /\ UNCHANGED <<app_key, app_secret, gcPc, gcSeeded, gcClients>>
  /\ UNCHANGED <<clientVars, seedVars, gexVars>>

\* line 58: the check passes
GetClientCheck ==
  /\ gcPc = "idle"
  /\ gets < MaxGets
  /\ KeyConfigured
  /\ gets' = gets + 1
  /\ gcOutcome' = "none"
  /\ gcPc' = "seed"
  /\ UNCHANGED <<app_key, app_secret, gcSeeded, gcClients>>
  /\ UNCHANGED <<clientVars, seedVars, gexVars>>

\* line 65: _seed_tokens_from_secrets() returns, or raises and ends get_client
GetClientSeed ==
  /\ gcPc = "seed"
  /\ gcSeeded' = gcSeeded + 1
  /\ \E how \in SeedEndings :
       /\ gcPc' = IF how = "returned" THEN "client" ELSE "idle"
       /\ gcOutcome' = IF how = "returned" THEN gcOutcome ELSE how
  /\ UNCHANGED <<app_key, app_secret, gets, gcClients>>
  /\ UNCHANGED <<clientVars, seedVars, gexVars>>

\* lines 67-72: schwabdev.Client(app_key, app_secret, callback_url)
GetClientConstruct ==
  /\ gcPc = "client"
  /\ gcClients' = gcClients + 1
  /\ \E how \in LibraryEndings : gcOutcome' = how
  /\ gcPc' = "idle"
  /\ UNCHANGED <<app_key, app_secret, gets, gcSeeded>>
  /\ UNCHANGED <<clientVars, seedVars, gexVars>>

GetClientNext ==
  \/ GetClientRaise
  \/ GetClientCheck
  \/ GetClientSeed
  \/ GetClientConstruct

GetClientIdle ==
  /\ app_key = "set" /\ app_secret = "set" /\ gcPc = "idle"
  /\ gcOutcome = "none" /\ gets = 0 /\ gcSeeded = 0 /\ gcClients = 0

\* ------------------------------------------------------------------------
\* Specifications
\* ------------------------------------------------------------------------
ClientIdle ==
  /\ client = "failed" /\ access_token = NoToken /\ refresh_token = 0
  /\ token_expiry = DatetimeMin /\ header = NoToken /\ lock = 0 /\ clock = 0
  /\ posts = 0 /\ calls = 0 /\ expiryBy = 0 /\ lastReq = -1
  /\ pc = [t \in Threads |-> "dead"]
  /\ now = [t \in Threads |-> 0]
  /\ resp = [t \in Threads |-> NoResp]
  /\ newExp = [t \in Threads |-> 0]
  /\ sawBy = [t \in Threads |-> 0]
  /\ okFrom = [g \in 0..(MaxPosts + 1) |-> 0]
  /\ snap = [t \in Threads |-> NoSnap]
  /\ renewedAt = [t \in Threads |-> -1]
  /\ outcome = [t \in Threads |-> "none"]
  /\ found = [t \in Threads |-> "none"]
  /\ postsBy = [t \in Threads |-> 0]
  /\ lastRot = 0

SeedIdle ==
  /\ tableExists = FALSE /\ rows = <<>> /\ dbLock = 0 /\ seeds = 0
  /\ seedPc = [p \in Seeders |-> "idle"]
  /\ bundle = [p \in Seeders |-> NoBundle]
  /\ existing = [p \in Seeders |-> 0]
  /\ seedOutcome = [p \in Seeders |-> "none"]
  /\ startedEmpty = TRUE /\ firstBundle = NoBundle /\ overlapped = FALSE

\* CloudClient used by NumThreads threads
InitClient == ClientInit /\ SeedIdle /\ GexIdle /\ GetClientIdle
SpecClient == InitClient /\ [][ClientNext]_vars

\* _seed_tokens_from_secrets invoked up to MaxSeeds times by NumSeeders
\* callers
InitSeed == SeedInit /\ ClientIdle /\ GexIdle /\ GetClientIdle
SpecSeed == InitSeed /\ [][SeedNext]_vars

\* calculate_gex applied to a chain of contract records
InitGex == GexInit /\ ClientIdle /\ SeedIdle /\ GetClientIdle
SpecGex == InitGex /\ [][GexNext]_vars

\* The steps of a thread once it is inside __init__ or a call: the scheduler
\* runs every thread that can run, and the token endpoint ends every POST
\* with an answer or an error of the transport (timeout=30, line 59).
Progress(t) ==
  \/ Construct(t) \/ ReadNow(t) \/ CheckExpiry(t) \/ Acquire(t)
  \/ PostTransportError(t) \/ PostRejected(t) \/ PostOk(t)
  \/ StoreAccess(t) \/ StoreRefresh(t) \/ ComputeExpiry(t) \/ StoreExpiry(t)
  \/ StoreHeader(t) \/ ConstructDone(t) \/ Dispatch(t)

\* CloudClient under fair scheduling of its threads
SpecClientFair ==
  InitClient /\ [][ClientNext]_vars /\ \A t \in Threads : WF_vars(Progress(t))

\* get_client called up to MaxGets times in an environment that does or does
\* not define the credentials
InitGetClient == GetClientInit /\ ClientIdle /\ SeedIdle /\ GexIdle
SpecGetClient == InitGetClient /\ [][GetClientNext]_vars

\* ------------------------------------------------------------------------
\* Properties of CloudClient
\* ------------------------------------------------------------------------
\* The kinds of error: get_client's ValueError, the renewal's RuntimeError
ConfigurationError == "ValueError"
RenewalError == "RuntimeError"

\* C1: renewal mutual exclusion: among the calls whose expiry check found the
\* same stored expiry passed, exactly one renewal is made; no stored expiry
\* is the cause of two successful POSTs to the token endpoint.
C1_OneRenewalPerExpiry == \A g \in DOMAIN okFrom : okFrom[g] <= 1

\* The time a call's token must outlive: the clock read by its expiry check
\* or, if the call renewed, the clock read when its renewal completed.
RefTime(t) == IF renewedAt[t] >= 0 THEN renewedAt[t] ELSE now[t]

\* C2: when _ensure_token has returned and the request is about to be sent,
\* the stored expiry is strictly later than the call's reference time,
\* whatever lifetime the token endpoint declared.
C2_NoExpiredDispatch ==
  \A t \in Threads : pc[t] = "send" => token_expiry > RefTime(t)

\* C3: a renewal answered with a non-success status raises RuntimeError, which
\* is not the configuration error, and leaves access token, expiry, refresh
\* secret and Authorization header as they were when the renewal began.
C3_FailureLeavesBundle ==
  [][\A t \in Threads :
       PostRejected(t) =>
         /\ Bundle' = snap[t]
         /\ outcome'[t] = RenewalError
         /\ outcome'[t] # ConfigurationError]_vars

\* A call's renewal was rejected while the client held a token.
C3_Witness ==
  \E t \in Threads :
    /\ outcome[t] = RenewalError
    /\ client = "returned"
    /\ access_token # NoToken
    /\ header = access_token

\* C10: construction sends exactly one renewal request and either returns a
\* client holding the bearer token, expiry and header of that renewal, or
\* raises and returns no client; no returned client has an unset token.
C10_Construction ==
  /\ client = "constructing" => calls = 0 /\ posts <= 1
  /\ client = "failed" =>
       /\ calls = 0 /\ posts = 1 /\ pc[1] = "dead"
       /\ outcome[1] \in {RenewalError, "TransportError"}
  /\ client = "returned" => access_token # NoToken /\ header # NoToken
  /\ client = "returned" /\ calls = 0 =>
       /\ posts = 1 /\ access_token = 1 /\ header = 1 /\ expiryBy = 1
       /\ \E c \in 0..clock, d \in Responses(1) :
            token_expiry = c + ExpiresIn(d) - SAFETY_MARGIN

\* The constructor has returned a client and no call has started yet.
C10_Witness ==
  client = "returned" /\ calls = 0 /\ outcome[1] = "constructed"

\* The positions of a thread inside _refresh_access_token
InRenewal == {"lock", "post", "s71", "s73", "r76", "s76", "s77"}

\* C11: lazy renewal: once the client is constructed, a POST to the token
\* endpoint is sent only by a call whose expiry check found now >= the stored
\* expiry, once, and before the call's own request; a call whose check found
\* now < the stored expiry sends no POST and goes straight to its request.
C11_LazyRenewal ==
  /\ [](\A t \in Threads :
          /\ found[t] = "valid" => postsBy[t] = 0 /\ pc[t] = "send"
          /\ client # "constructing" /\ pc[t] \in InRenewal => found[t] = "expired"
          /\ pc[t] = "send" /\ found[t] = "expired" => postsBy[t] = 1
          /\ pc[t] \in {"idle", "dead", "e82", "e83"} => postsBy[t] = 0)
  /\ [][/\ \A t \in Threads :
             pc[t] = "e83" /\ pc'[t] # "e83" =>
               /\ posts' = posts
               /\ found'[t] = IF now[t] >= token_expiry THEN "expired" ELSE "valid"
               /\ pc'[t] = IF now[t] >= token_expiry THEN "lock" ELSE "send"
        /\ posts' # posts /\ client = "returned" =>
             \E t \in Threads :
               pc[t] = "post" /\ found[t] = "expired" /\ postsBy[t] = 0]_vars

\* Two calls about to send their requests: one found the token valid, the
\* other found it expired and renewed.
C11_Witness ==
  \E t, u \in Threads :
    /\ pc[t] = "send" /\ found[t] = "valid"
    /\ pc[u] = "send" /\ found[u] = "expired" /\ postsBy[u] = 1

\* C12: expiry arithmetic: when a renewal has stored its expiry, the stored
\* expiry is the time read on line 76 plus the lifetime declared in the
\* response minus 60 seconds, so the token counts as expired from 60 seconds
\* before its declared end of life.
C12_ExpiryArithmetic ==
  \A t \in Threads :
    pc[t] = "s77" /\ resp[t].expires_in # NoField =>
      LET endOfLife == renewedAt[t] + resp[t].expires_in
      IN /\ token_expiry = renewedAt[t] + resp[t].expires_in - 60
         /\ \A c \in 0..(MaxTime + 1) :
              (c >= token_expiry) <=> (c >= endOfLife - 60)

\* A call's renewal, processed at a time after 0, has stored the expiry of a
\* response that declared 90 seconds.
C12_Witness ==
  \E t \in Threads :
    /\ pc[t] = "s77" /\ client = "returned"
    /\ resp[t].expires_in = 90 /\ renewedAt[t] > 0

\* C13: refresh-secret rotation: every POST carries the refresh secret of the
\* latest successful response that had a refresh_token field (the
\* constructor's if there was none); the stored secret changes only when a
\* successful response with the field is stored, never on a failed renewal
\* or a response without the field.
C13_RefreshRotation ==
  /\ []((\A t \in Threads : pc[t] \notin {"s71", "s73"}) => refresh_token = lastRot)
  /\ [][/\ posts' # posts => lastReq' = lastRot
        /\ refresh_token' # refresh_token =>
             \E t \in Threads :
               /\ pc[t] = "s73" /\ resp[t].rot # 0
               /\ refresh_token' = resp[t].rot
        /\ \A t \in Threads :
             PostRejected(t) \/ PostTransportError(t) =>
               refresh_token' = refresh_token]_vars

\* A call of a thread other than the constructing one sent a rotated secret
\* and got a response without the field.
C13_Witness ==
  \E t \in Threads :
    /\ t # 1 /\ pc[t] = "r76" /\ resp[t].rot = 0
    /\ refresh_token # 0 /\ lastReq = refresh_token

\* C18: no automatic retry: a call whose renewal is answered with a
\* non-success status has sent that one POST, ends with RuntimeError without
\* sending its request, and releases the lock; a thread whose call ended this
\* way sends nothing more until it starts another call.
C18_NoRetry ==
  /\ [](\A t \in Threads :
          outcome[t] = RenewalError =>
            pc[t] \in {"idle", "dead"} /\ postsBy[t] = 0 /\ found[t] = "none")
  /\ [][/\ \A t \in Threads :
             client = "returned" /\ PostRejected(t) =>
               /\ found[t] = "expired" /\ postsBy[t] = 0
               /\ posts' = posts + 1
               /\ pc'[t] = "idle" /\ outcome'[t] = RenewalError
               /\ lock' = 0
        /\ posts' # posts =>
             \E t \in Threads : pc[t] = "post" /\ postsBy[t] = 0]_vars

\* A call ended with the renewal error after the constructor's renewal and
\* its own POST.
C18_Witness ==
  \E t \in Threads :
    /\ outcome[t] = RenewalError /\ pc[t] = "idle"
    /\ client = "returned" /\ posts >= 2 /\ lock = 0

\* C19: callers observe the renewed token: when a call is about to send its
\* request, the Authorization header carries the token of the renewal whose
\* expiry its check read, or of a later one, and never the token of a
\* renewal older than the one that stored the current expiry.
C19_RenewedTokenObserved ==
  \A t \in Threads :
    pc[t] = "send" => header >= sawBy[t] /\ header >= expiryBy

\* The positions at which a thread holds the lock
Holding == {"post", "s71", "s73", "r76", "s76", "s77"}

\* C21: the lock is held exactly by a thread inside the with-block, so it is
\* free whenever no thread is inside a renewal, after a success, a
\* non-success status or a transport error alike; and under fair scheduling
\* every call that has started ends: its request is sent, or it fails with
\* the renewal error, or its own POST got no answer.
C21_LockReleased ==
  /\ [](\A t \in Threads : (lock = t) <=> (pc[t] \in Holding))
  /\ []((\A t \in Threads : pc[t] \notin Holding) => lock = 0)
  /\ \A t \in Threads :
       (pc[t] = "e82") ~>
         (pc[t] = "idle" /\ outcome[t] \in {"sent", RenewalError, "TransportError"})

\* A call's renewal has failed, and another thread holds the lock after it.
C21_Witness ==
  \E t, u \in Threads :
    /\ t # u /\ client = "returned"
    /\ pc[t] = "idle" /\ outcome[t] \in {RenewalError, "TransportError"}
    /\ pc[u] = "post" /\ lock = u

\* ------------------------------------------------------------------------
\* Properties of calculate_gex
\* ------------------------------------------------------------------------
\* The net exposure of a record as the sign convention states it
SignedExposure(r) ==
  r.call_OI * r.call_gamma * 100 - r.put_OI * r.put_gamma * 100

RECURSIVE ExposureOver(_, _)
\* The sum of the net exposure of the records of df at the positions I
ExposureOver(df, I) ==
  IF I = {} THEN 0
  ELSE LET i == CHOOSE j \in I : TRUE
       IN SignedExposure(df[i]) + ExposureOver(df, I \ {i})

RECURSIVE ContractsOver(_, _)
\* The sum of call_OI - put_OI of the records of df at the positions I
ContractsOver(df, I) ==
  IF I = {} THEN 0
  ELSE LET i == CHOOSE j \in I : TRUE
       IN (df[i].call_OI - df[i].put_OI) + ContractsOver(df, I \ {i})

Positions(df, k) == {i \in DOMAIN df : df[i].strike = k}
NearPositions(df, k) == {i \in Positions(df, k) : df[i].dte <= 30}

\* options_df without its record i
Without(df, i) == SubSeq(df, 1, i - 1) \o SubSeq(df, i + 1, Len(df))

\* A value of a series or a cell of a table, 0 where there is none
SeriesAt(x, k) == IF k \in DOMAIN x.val THEN x.val[k] ELSE 0
CellAt(t, k, c) ==
  IF <<k, c>> \in DOMAIN t.cell /\ t.cell[<<k, c>>] # NaN
  THEN t.cell[<<k, c>>][1] ELSE 0

\* The expirations that have a column of their own in the result
Displayed(out) ==
  {e \in Expirations : ExpCol(e) \in Range(out.gex_table.columns)}

\* C4: sign convention: what a record adds to the per-strike exposure, to the
\* aggregate column (when dte <= 30) and to the cell of its expiration (when
\* displayed) is call_OI * call_gamma * 100 - put_OI * put_gamma * 100:
\* positive for a call-only gamma, negative for a put-only gamma.
C4_SignConvention ==
  gex_called =>
    \A i \in DOMAIN options_df :
      LET r == options_df[i]
          rest == calculate_gex(Without(options_df, i), 0)
          e == SignedExposure(r)
      IN /\ SeriesAt(gex_out.gex_by_strike, r.strike)
              - SeriesAt(rest.gex_by_strike, r.strike) = e
         /\ r.dte <= 30 =>
              CellAt(gex_out.gex_table, r.strike, AggCol)
                - CellAt(rest.gex_table, r.strike, AggCol) = e
         /\ r.expiration \in Displayed(gex_out) =>
              CellAt(gex_out.gex_table, r.strike, ExpCol(r.expiration))
                - CellAt(rest.gex_table, r.strike, ExpCol(r.expiration)) = e
         /\ r.put_gamma = 0 /\ r.call_gamma > 0 /\ r.call_OI > 0 => e > 0
         /\ r.call_gamma = 0 /\ r.put_gamma > 0 /\ r.put_OI > 0 => e < 0

\* A result for an input with a call-only record and a put-only record that
\* both have open interest on the other side.
C4_Witness ==
  /\ gex_called
  /\ \E i, j \in DOMAIN options_df :
       /\ options_df[i].put_gamma = 0 /\ options_df[i].call_gamma > 0
       /\ options_df[i].put_OI > 0
       /\ options_df[j].call_gamma = 0 /\ options_df[j].put_gamma > 0
       /\ options_df[j].call_OI > 0
       /\ options_df[i].strike = options_df[j].strike

\* C5: aggregate completeness: at every strike the '0-30 DTE' cell is the sum
\* of the net exposure of all records of the strike with dte <= 30, displayed
\* expiration or not, and 0 when there is none.
C5_AggregateComplete ==
  gex_called /\ options_df # <<>> =>
    \A k \in StrikesOf(options_df) :
      /\ <<k, AggCol>> \in DOMAIN gex_out.gex_table.cell
      /\ gex_out.gex_table.cell[<<k, AggCol>>]
           = Num(ExposureOver(options_df, NearPositions(options_df, k)))

\* A strike with records at dte 30 and dte 31, the one at dte 30 in an
\* expiration that has no column.
C5_Witness ==
  /\ gex_called
  /\ \E i, j \in DOMAIN options_df :
       /\ options_df[i].strike = options_df[j].strike
       /\ options_df[i].dte = 30 /\ options_df[j].dte = 31
       /\ options_df[i].expiration \notin Displayed(gex_out)

\* C6: column restriction: the columns are the min(5, k) earliest distinct
\* expirations in ascending order, then the aggregate column, then 'Net
\* Contracts'; the records of later expirations still count in the aggregate
\* column (dte <= 30) and in both per-strike series.
C6_ColumnRestriction ==
  gex_called /\ options_df # <<>> =>
    LET exps == ExpirationsOf(options_df)
        n == IF Cardinality(exps) < 5 THEN Cardinality(exps) ELSE 5
        cols == gex_out.gex_table.columns
    IN /\ Len(cols) = n + 2
       /\ \A i \in 1..n :
            \E e \in exps : /\ cols[i] = ExpCol(e)
                            /\ Cardinality({f \in exps : f < e}) = i - 1
       /\ cols[n + 1] = AggCol
       /\ cols[n + 2] = NetCol
       /\ \A k \in StrikesOf(options_df) :
            /\ CellAt(gex_out.gex_table, k, AggCol)
                 = ExposureOver(options_df, NearPositions(options_df, k))
            /\ SeriesAt(gex_out.gex_by_strike, k)
                 = ExposureOver(options_df, Positions(options_df, k))
            /\ SeriesAt(gex_out.net_contracts, k)
                 = ContractsOver(options_df, Positions(options_df, k))

\* More than five expirations, one of the later ones within 30 days.
C6_Witness ==
  /\ gex_called
  /\ Cardinality(ExpirationsOf(options_df)) > 5
  /\ \E i \in DOMAIN options_df :
       /\ options_df[i].expiration \notin Displayed(gex_out)
       /\ options_df[i].dte <= 30

\* C7: per-strike series: at every strike the net-OI series is the sum of
\* call_OI - put_OI over all records of the strike, the exposure series the
\* sum of their net exposure, and the 'Net Contracts' cell is the net-OI
\* value.
C7_PerStrikeSeries ==
  gex_called /\ options_df # <<>> =>
    \A k \in StrikesOf(options_df) :
      /\ k \in DOMAIN gex_out.net_contracts.val
      /\ k \in DOMAIN gex_out.gex_by_strike.val
      /\ gex_out.net_contracts.val[k]
           = ContractsOver(options_df, Positions(options_df, k))
      /\ gex_out.gex_by_strike.val[k]
           = ExposureOver(options_df, Positions(options_df, k))
      /\ <<k, NetCol>> \in DOMAIN gex_out.gex_table.cell
      /\ gex_out.gex_table.cell[<<k, NetCol>>] = Num(gex_out.net_contracts.val[k])

\* A strike whose records span a displayed and a not displayed expiration.
C7_Witness ==
  /\ gex_called
  /\ \E i, j \in DOMAIN options_df :
       /\ options_df[i].strike = options_df[j].strike
       /\ options_df[i].expiration \in Displayed(gex_out)
       /\ options_df[j].expiration \notin Displayed(gex_out)
       /\ options_df[j].call_OI # options_df[j].put_OI

\* C14: empty input: for a chain of zero records calculate_gex returns a
\* surface without rows and columns and two series without entries, whatever
\* the spot price (zero and negative included).
C14_EmptyInput ==
  gex_called /\ options_df = <<>> =>
    /\ gex_out.gex_table.index = <<>>
    /\ gex_out.gex_table.columns = <<>>
    /\ DOMAIN gex_out.gex_table.cell = {}
    /\ gex_out.gex_by_strike.index = <<>> /\ DOMAIN gex_out.gex_by_strike.val = {}
    /\ gex_out.net_contracts.index = <<>> /\ DOMAIN gex_out.net_contracts.val = {}
    /\ \A s \in SpotPrices : calculate_gex(options_df, s) = gex_out

\* calculate_gex has returned for the empty chain.
C14_Witness == gex_called /\ options_df = <<>> /\ added = 0

\* The positions of the records of a (strike, expiration) pair
PairPositions(df, k, e) == {i \in Positions(df, k) : df[i].expiration = e}

\* C15: pivot cells: at every strike, the cell of every displayed expiration
\* is the sum of the net exposure of all records of the pair (duplicates
\* summed) and the number 0 when the pair has no record; no cell of the
\* surface, aggregate and 'Net Contracts' included, is missing.
C15_PivotCells ==
  gex_called /\ options_df # <<>> =>
    \A k \in StrikesOf(options_df) :
      /\ \A c \in Range(gex_out.gex_table.columns) :
           /\ <<k, c>> \in DOMAIN gex_out.gex_table.cell
           /\ gex_out.gex_table.cell[<<k, c>>] # NaN
      /\ \A e \in Displayed(gex_out) :
           gex_out.gex_table.cell[<<k, ExpCol(e)>>]
             = Num(ExposureOver(options_df, PairPositions(options_df, k, e)))

\* Two records share a displayed pair, and another displayed pair has no
\* record.
C15_Witness ==
  /\ gex_called
  /\ \E i, j \in DOMAIN options_df :
       /\ i # j /\ options_df[i].strike = options_df[j].strike
       /\ options_df[i].expiration = options_df[j].expiration
       /\ options_df[i].expiration \in Displayed(gex_out)
  /\ \E k \in StrikesOf(options_df), e \in Displayed(gex_out) :
       PairPositions(options_df, k, e) = {}

\* C16: rows: the index of the surface and of both series is one and the same
\* sequence, the distinct strikes of the input in strictly descending order,
\* and every strike has a cell in every column, also a strike whose records
\* are all of one expiration that has no column.
C16_RowsAndOrder ==
  gex_called /\ options_df # <<>> =>
    LET ix == gex_out.gex_table.index
    IN /\ gex_out.gex_by_strike.index = ix
       /\ gex_out.net_contracts.index = ix
       /\ Range(ix) = StrikesOf(options_df)
       /\ \A i, j \in DOMAIN ix : i < j => ix[i] > ix[j]
       /\ \A k \in StrikesOf(options_df), c \in Range(gex_out.gex_table.columns) :
            <<k, c>> \in DOMAIN gex_out.gex_table.cell

\* A strike below the top one whose only record is of an expiration without
\* a column.
C16_Witness ==
  /\ gex_called
  /\ \E k \in StrikesOf(options_df) :
       /\ k # TopStrike /\ TopStrike \in StrikesOf(options_df)
       /\ Cardinality(Positions(options_df, k)) = 1
       /\ \A i \in Positions(options_df, k) :
            options_df[i].expiration \notin Displayed(gex_out)

\* ------------------------------------------------------------------------
\* Properties of _seed_tokens_from_secrets
\* ------------------------------------------------------------------------
Raised(p) == seedOutcome[p] \in {"IntegrityError", "OperationalError"}
SeedingDone == \A p \in Seeders : ~Active(p)

\* C8: seeding idempotence: after invocations made one after the other from
\* an empty cache, of which at least one had a complete bundle, the table
\* holds exactly one row, the bundle of the first such invocation; and the
\* table never holds more than one row.
C8_SeedOnce ==
  startedEmpty /\ ~overlapped =>
    /\ Len(rows) <= 1
    /\ SeedingDone /\ firstBundle # NoBundle => rows = <<firstBundle>>

\* C9: seeding never raises: no invocation ends with an exception, whatever
\* the secret store holds.
C9_SeedNeverRaises == \A p \in Seeders : ~Raised(p)

\* C20: concurrent seeding: invocations that run at the same time against a
\* cache that started empty, each with a complete bundle, leave at most one
\* row in the table.
C20_ConcurrentSeedOnce ==
  startedEmpty /\ (\A i \in DOMAIN rows : Complete(rows[i])) => Len(rows) <= 1

\* ------------------------------------------------------------------------
\* Properties of get_client
\* ------------------------------------------------------------------------
\* A required credential is absent or still the placeholder
NotConfigured(v) == v \in {"None", "", "placeholder"}

\* C17: configuration error: when the app key or the app secret is absent or
\* a placeholder, every call of get_client ends with the configuration
\* error, which is not the renewal error, before the token cache is seeded
\* and before an API client is constructed.
C17_ConfigurationError ==
  NotConfigured(app_key) \/ NotConfigured(app_secret) =>
    /\ gcSeeded = 0 /\ gcClients = 0
    /\ gcPc = "idle"
    /\ gets > 0 => gcOutcome = ConfigurationError
    /\ ConfigurationError # RenewalError


=============================================================================
